---- MODULE Spec2Model ----
(***************************************************************************)
(* A model of androidtv/androidtv.py: the AndroidTV object talking to a    *)
(* device through adb_shell.  Text is modelled as a sequence of one        *)
(* character strings, so that the positional decoding of get_properties    *)
(* (first character, second character, strip, splitlines, split on "=",    *)
(* the regular expressions) is computed character by character as the      *)
(* code computes it.  A Python value that may be None is modelled as a     *)
(* sequence of length at most one: <<>> is None and <<v>> is the value v.  *)
(* The volume, a float rounded to two decimals, is held as the integer     *)
(* number of hundredths (0.53 is 53, 1.0 is 100).                          *)
(***************************************************************************)
EXTENDS Integers, Sequences, FiniteSets, TLC

VARIABLES
    channel,            \* what the device answers to the composite command
    getprop_out,        \* what the device answers to "getprop"
    wifi_out,           \* what the device answers to "ip addr show wlan0"
    sent,               \* number of commands handed to adb_shell so far
    cmds,               \* the commands the latest call handed to adb_shell
    op,                 \* the latest public method called
    props,              \* what get_properties returned in the latest call
    result,             \* what update returned in the latest call
    device_properties   \* what get_device_properties returned in the latest call

vars == <<channel, getprop_out, wifi_out, sent, cmds, op, props, result,
          device_properties>>

(***************************************************************************)
(* Bounds of the model.                                                    *)
(***************************************************************************)
MaxLen == 3         \* every text over Alphabet up to this length is a reply
MaxCalls == 2       \* calls are made while fewer commands than this were sent

(***************************************************************************)
(* Python values.                                                          *)
(***************************************************************************)
None == <<>>
Some(v) == <<v>>

\* constants.STATE_*: the closed enumeration of semantic states.
STATE_OFF == "off"
STATE_IDLE == "idle"
STATE_PLAYING == "playing"
STATE_PAUSED == "paused"

\* bool(x) for an optional boolean: None and False are falsy.
TruthyBool(x) == x = Some(TRUE)

\* bool(x) for an optional string: None and "" are falsy.
TruthyStr(x) == x # None /\ x[1] # ""

(***************************************************************************)
(* Characters.                                                             *)
(***************************************************************************)
DigitChars == <<"0", "1", "2", "3", "4", "5", "6", "7", "8", "9">>
Digits == {DigitChars[i] : i \in 1..10}
DigitVal(c) == (CHOOSE i \in 1..10 : DigitChars[i] = c) - 1

\* The characters of the model's texts that \W matches; every other
\* character used is a letter, a digit or "_".
NonWord == {" ", "\n", "\r", "\t", ":", ")", "(", "-", "+", "=", "/", ".",
            "[", "]", ",", "{", "}"}
IsWord(c) == c \notin NonWord

\* str.strip() removes these; str.splitlines() breaks at LineBreaks.
Whitespace == {" ", "\n", "\r", "\t"}
LineBreaks == {"\n", "\r"}

(***************************************************************************)
(* String primitives.                                                      *)
(***************************************************************************)
Min(S) == CHOOSE x \in S : \A y \in S : x <= y

\* lit occurs in s at index i.
MatchAt(s, lit, i) ==
    /\ i >= 1
    /\ i + Len(lit) - 1 <= Len(s)
    /\ \A k \in 1..Len(lit) : s[i + k - 1] = lit[k]

\* The least index >= from at which lit occurs in s, or 0.
Find(s, lit, from) ==
    LET hits == {i \in from..(Len(s) - Len(lit) + 1) : MatchAt(s, lit, i)}
    IN  IF hits = {} THEN 0 ELSE Min(hits)

\* `lit in s`
Contains(s, lit) == Find(s, lit, 1) # 0

\* s[i..j] (1-based, inclusive), empty when j < i.
Slice(s, i, j) == IF j < i THEN <<>> ELSE SubSeq(s, i, j)

\* str.strip()
Strip(s) ==
    LET keep == {i \in 1..Len(s) : s[i] \notin Whitespace}
    IN  IF keep = {} THEN <<>>
        ELSE Slice(s, Min(keep), CHOOSE x \in keep : \A y \in keep : y <= x)

\* str.splitlines(): "\n", "\r" and "\r\n" end a line; no empty last line.
splitlines(s) ==
    LET \* where a line terminator starts, and where the one at b ends
        starts == {i \in 1..Len(s) :
                      /\ s[i] \in LineBreaks
                      /\ ~(s[i] = "\n" /\ i > 1 /\ s[i - 1] = "\r")}
        n == Cardinality(starts)
        nth(k) == CHOOSE b \in starts :
                      Cardinality({x \in starts : x < b}) = k - 1
        last(b) == IF s[b] = "\r" /\ b < Len(s) /\ s[b + 1] = "\n"
                   THEN b + 1 ELSE b
        first(k) == IF k = 1 THEN 1 ELSE last(nth(k - 1)) + 1
        rest == IF n = 0 THEN 1 ELSE last(nth(n)) + 1
        ended == IF n = 0 THEN <<>>
                 ELSE [k \in 1..n |-> Slice(s, first(k), nth(k) - 1)]
    IN  IF rest <= Len(s) THEN Append(ended, Slice(s, rest, Len(s)))
        ELSE ended

\* "\n".join(lines[from-1:]) for a 1-based index from.
RECURSIVE JoinFrom(_, _)
JoinFrom(lines, from) ==
    IF from > Len(lines) THEN <<>>
    ELSE IF from = Len(lines) THEN lines[from]
    ELSE lines[from] \o <<"\n">> \o JoinFrom(lines, from + 1)

\* line.split("=")[1]: None when the line holds no "=" (IndexError in Python).
SplitEqSecond(line) ==
    LET a == Find(line, <<"=">>, 1)
        b == IF a = 0 THEN 0 ELSE Find(line, <<"=">>, a + 1)
    IN  IF a = 0 THEN None
        ELSE Some(Slice(line, a + 1, IF b = 0 THEN Len(line) ELSE b - 1))

RECURSIVE DigitsValue(_, _)
DigitsValue(t, acc) ==
    IF t = <<>> THEN acc
    ELSE DigitsValue(Tail(t),
                     IF t[1] \in Digits THEN 10 * acc + DigitVal(t[1]) ELSE acc)

\* int(t) for a stripped text t: an optional sign, then digits that single
\* underscores may separate.  None stands for ValueError.
ParseInt(t) ==
    LET signed == t # <<>> /\ t[1] \in {"+", "-"}
        body == IF signed THEN Tail(t) ELSE t
        n == Len(body)
        wellformed ==
            /\ n >= 1
            /\ \A i \in 1..n : body[i] \in Digits \cup {"_"}
            /\ body[1] \in Digits
            /\ body[n] \in Digits
            /\ \A i \in 1..(n - 1) : ~(body[i] = "_" /\ body[i + 1] = "_")
    IN  IF ~wellformed THEN None
        ELSE IF signed /\ t[1] = "-" THEN Some(0 - DigitsValue(body, 0))
        ELSE Some(DigitsValue(body, 0))

(***************************************************************************)
(* Regular expression patterns (module level of androidtv.py).             *)
(***************************************************************************)
BLOCK_START == <<"S", "T", "R", "E", "A", "M", "_", "M", "U", "S", "I", "C">>
BLOCK_END == <<"-", " ", "S", "T", "R", "E", "A", "M">>
DEVICE_PREFIX == <<"D", "e", "v", "i", "c", "e", "s", ":", " ">>
MUTED_PREFIX == <<"M", "u", "t", "e", "d", ":", " ">>
VOLUME_INFIX == <<")", ":", " ">>
STARTED == <<"s", "t", "a", "r", "t", "e", "d">>
PAUSED == <<"p", "a", "u", "s", "e", "d">>
TRUE_TEXT == <<"t", "r", "u", "e">>

\* re.findall(BLOCK_REGEX_PATTERN, text, DOTALL)[:1]: the text between the
\* first "STREAM_MUSIC" and the first "- STREAM" after it; None when the
\* pattern matches nowhere.
BlockMatch(text) ==
    LET i == Find(text, BLOCK_START, 1)
        j == IF i = 0 THEN 0 ELSE Find(text, BLOCK_END, i + Len(BLOCK_START))
    IN  IF i = 0 \/ j = 0 THEN None
        ELSE Some(Slice(text, i + Len(BLOCK_START), j - 1))

\* re.findall(prefix + r"(.*?)\W", text, DOTALL)[:1]: the characters after
\* the first occurrence of prefix up to the next non-word character.  Both
\* prefixes end in ": ", so a later occurrence of the prefix would itself
\* supply the non-word character: the first occurrence decides.
WordAfter(prefix, text) ==
    LET i == Find(text, prefix, 1)
        from == i + Len(prefix)
        stops == {j \in from..Len(text) : ~IsWord(text[j])}
    IN  IF i = 0 \/ stops = {} THEN None
        ELSE Some(Slice(text, from, Min(stops) - 1))

\* re.findall(device + VOLUME_REGEX_PATTERN, text, DOTALL)[:1]: the run of
\* digits after the first occurrence of device + "): " that a digit follows.
\* device holds word characters only, so it is a literal of the pattern.
VolumeMatch(device, text) ==
    LET lit == device \o VOLUME_INFIX
        hits == {i \in 1..(Len(text) - Len(lit)) :
                    MatchAt(text, lit, i) /\ text[i + Len(lit)] \in Digits}
        d0 == Min(hits) + Len(lit)
        ends == {j \in d0..Len(text) :
                    /\ \A k \in d0..j : text[k] \in Digits
                    /\ (j = Len(text) \/ text[j + 1] \notin Digits)}
    IN  IF hits = {} THEN None ELSE Some(Slice(text, d0, Min(ends)))

\* round(1 / 15 * float(volume_level), 2), in hundredths.  The exact quotient
\* 100 * raw / 15 has fractional part 0, 1/3 or 2/3, never a tie.
VolumeLevel(digits) == (40 * DigitsValue(digits, 0) + 3) \div 6

\* constants.REGEX_WINDOW.search(line): the named groups package and
\* activity, separated by "/"; None when the line does not match.
REGEX_WINDOW_search(line) ==
    LET i == Find(line, <<"/">>, 1)
    IN  IF i <= 1 \/ i >= Len(line) THEN None
        ELSE Some([package |-> Slice(line, 1, i - 1),
                   activity |-> Slice(line, i + 1, Len(line))])

(***************************************************************************)
(* get_properties                                                          *)
(***************************************************************************)
\* The 8-tuple get_properties returns; exc is "" for a normal return.
Snapshot(screen_on, awake, wake_lock_size, current_app, audio_state, device, muted, volume) ==
    [exc |-> "", screen_on |-> screen_on, awake |-> awake,
     wake_lock_size |-> wake_lock_size, current_app |-> current_app,
     audio_state |-> audio_state, device |-> device, muted |-> muted,
     volume |-> volume]

\* The call ended with the exception exc instead of returning.
Raised(exc) ==
    [exc |-> exc, screen_on |-> None, awake |-> None, wake_lock_size |-> None,
     current_app |-> None, audio_state |-> None, device |-> None,
     muted |-> None, volume |-> None]

\* A slip: the absent reply handled like the empty one.
AbsentSnapshot_AsEmpty ==
    Snapshot(Some(FALSE), Some(FALSE), Some(-1), None, None, None, None, None)

\* `if output is None: return None, None, ...`
AbsentSnapshot == Snapshot(None, None, None, None, None, None, None, None)

\* `if not output: return False, False, -1, None, ...`
EmptySnapshot ==
    Snapshot(Some(FALSE), Some(FALSE), Some(-1), None, None, None, None, None)

\* A slip: a reply of one character leaves `awake` and the count unset.
ShortSnapshot_AwakeUnset(screen_on) ==
    Snapshot(Some(screen_on), None, None, None, None, None, None, None)

\* `if len(output) < 2: return screen_on, False, -1, None, ...`
ShortSnapshot(screen_on) ==
    Snapshot(Some(screen_on), Some(FALSE), Some(-1), None, None, None, None,
             None)

\* The `audio_state` property of the dump: "started" before "paused".
AudioState(audio_output) ==
    IF Contains(audio_output, STARTED) THEN STATE_PLAYING
    ELSE IF Contains(audio_output, PAUSED) THEN STATE_PAUSED
    ELSE STATE_IDLE

\* The `device` property of the stream block.
Device(stream_block) == WordAfter(DEVICE_PREFIX, stream_block)

\* A slip: the volume is looked for even when no device was found.
Volume_WithoutDevice(device, stream_block) ==
    LET m == VolumeMatch(IF device = None THEN <<>> ELSE device[1],
                         stream_block)
    IN  IF m = None THEN None ELSE Some(VolumeLevel(m[1]))

\* The `volume` property: looked for only when a device was found.
Volume(device, stream_block) ==
    IF device = None THEN None
    ELSE LET m == VolumeMatch(device[1], stream_block)
         IN  IF m = None THEN None ELSE Some(VolumeLevel(m[1]))

\* The `muted` property of the stream block.
Muted(stream_block) ==
    LET m == WordAfter(MUTED_PREFIX, stream_block)
    IN  IF m = None THEN None ELSE Some(m[1] = TRUE_TEXT)

\* Lines 242-284: the "dumpsys audio" part, from the third line on.
AudioStage(screen_on, awake, wake_lock_size, current_app, lines) ==
    LET audio_output == JoinFrom(lines, 3)
        audio_state == Some(AudioState(audio_output))
        block == BlockMatch(audio_output)
    IN  IF block = None
        THEN Snapshot(screen_on, awake, wake_lock_size, current_app,
                      audio_state, None, None, None)
        ELSE LET device == Device(block[1])
             IN  Snapshot(screen_on, awake, wake_lock_size, current_app,
                          audio_state, device, Muted(block[1]),
                          Volume(device, block[1]))

\* Lines 221-244: the lines of the stripped output.
LinesStage(screen_on, awake, lines) ==
    IF lines = <<>> THEN Raised("IndexError")
    ELSE IF Len(lines[1]) < 3
    THEN Snapshot(screen_on, awake, Some(-1), None, None, None, None, None)
    ELSE LET field == SplitEqSecond(lines[1])
             wake_lock_size == IF field = None THEN None
                               ELSE ParseInt(Strip(field[1]))
         IN  IF field = None THEN Raised("IndexError")
             ELSE IF wake_lock_size = None THEN Raised("ValueError")
             ELSE IF Len(lines) < 2
             THEN Snapshot(screen_on, awake, wake_lock_size, None, None, None,
                           None, None)
             ELSE LET current_app == REGEX_WINDOW_search(lines[2])
                  IN  IF Len(lines) < 3
                      THEN Snapshot(screen_on, awake, wake_lock_size,
                                    current_app, None, None, None, None)
                      ELSE AudioStage(screen_on, awake, wake_lock_size,
                                      current_app, lines)

\* get_properties, given what adb_shell returned for the composite command.
get_properties(output) ==
    IF output = None THEN AbsentSnapshot
    ELSE LET out == output[1]
         IN  IF out = <<>> THEN EmptySnapshot
             ELSE IF Len(out) < 2 THEN ShortSnapshot(out[1] = "1")
             ELSE LinesStage(Some(out[1] = "1"), Some(out[2] = "1"),
                             splitlines(Strip(out)))

(***************************************************************************)
(* update                                                                  *)
(***************************************************************************)
UpdateResult(state, current_app, device, muted, volume) ==
    [exc |-> "", state |-> Some(state), current_app |-> current_app,
     device |-> device, muted |-> muted, volume |-> volume]

UpdateRaised(exc) ==
    [exc |-> exc, state |-> None, current_app |-> None, device |-> None,
     muted |-> None, volume |-> None]

\* Lines 107-117: the state of a device whose screen is on.
ResolveState(awake, wake_lock_size, audio_state) ==
    IF TruthyStr(audio_state) THEN audio_state[1]
    ELSE IF ~TruthyBool(awake) THEN STATE_IDLE
    ELSE IF wake_lock_size = Some(1) THEN STATE_PLAYING
    ELSE STATE_PAUSED

\* update, given what its call of get_properties(lazy=True) returned.
update(p) ==
    IF p.exc # "" THEN UpdateRaised(p.exc)
    ELSE LET current_app == IF p.current_app # None
                            THEN Some(p.current_app[1].package) ELSE None
         IN  IF ~TruthyBool(p.screen_on)
             THEN UpdateResult(STATE_OFF, current_app, p.device, p.muted,
                               p.volume)
             ELSE UpdateResult(
                      ResolveState(p.awake, p.wake_lock_size, p.audio_state),
                      current_app, p.device, p.muted, p.volume)

(***************************************************************************)
(* get_device_properties                                                   *)
(***************************************************************************)
\* "." of a pattern: any character but a newline.
ANY == "ANY"

WIFIMAC_KEY ==
    <<"w", "i", "f", "i", "m", "a", "c">>
SERIALNO_KEY ==
    <<"s", "e", "r", "i", "a", "l", "n", "o">>
MANUF_KEY ==
    <<"m", "a", "n", "u", "f", "a", "c", "t", "u", "r", "e", "r">>
MODEL_KEY ==
    <<"p", "r", "o", "d", "u", "c", "t", ANY, "m", "o", "d", "e", "l">>
VERSION_KEY ==
    <<"v", "e", "r", "s", "i", "o", "n", ANY, "r", "e", "l", "e", "a", "s",
      "e">>
ETHER_PREFIX ==
    <<"e", "t", "h", "e", "r", " ">>
ETHER_SUFFIX ==
    <<" ", "b", "r", "d">>

\* pat, whose ANY elements stand for ".", matches s at index i.
PatMatchAt(s, pat, i) ==
    /\ i >= 1
    /\ i + Len(pat) - 1 <= Len(s)
    /\ \A k \in 1..Len(pat) :
          \/ s[i + k - 1] = pat[k]
          \/ pat[k] = ANY /\ s[i + k - 1] # "\n"

\* The least index >= from at which lit occurs in s with no newline between
\* from and it (what ".*?" followed by lit reaches without DOTALL), or 0.
FindOnLine(s, lit, from) ==
    LET idx == Find(s, lit, from)
        nl == Find(s, <<"\n">>, from)
    IN  IF idx # 0 /\ (nl = 0 \/ nl > idx) THEN idx ELSE 0

\* The group of key + PROP_REGEX_PATTERN at the key ending before index e.
PropGroup(text, e) ==
    LET lb == FindOnLine(text, <<"[">>, e)
        rb == IF lb = 0 THEN 0 ELSE FindOnLine(text, <<"]">>, lb + 1)
    IN  IF lb = 0 \/ rb = 0 THEN None ELSE Some(Slice(text, lb + 1, rb - 1))

\* re.findall(key + PROP_REGEX_PATTERN, text)[:1]: the first match, if any.
PropMatch(key, text) ==
    LET hits == {i \in 1..Len(text) :
                    /\ PatMatchAt(text, key, i)
                    /\ PropGroup(text, i + Len(key)) # None}
    IN  IF hits = {} THEN None ELSE PropGroup(text, Min(hits) + Len(key))

\* re.findall(WIFIMAC_REGEX_PATTERN, text)[:1]: the first match, if any.
EtherMatch(text) ==
    LET hits == {i \in 1..Len(text) :
                    /\ MatchAt(text, ETHER_PREFIX, i)
                    /\ FindOnLine(text, ETHER_SUFFIX,
                                  i + Len(ETHER_PREFIX)) # 0}
        g == Min(hits) + Len(ETHER_PREFIX)
    IN  IF hits = {} THEN None
        ELSE Some(Slice(text, g, FindOnLine(text, ETHER_SUFFIX, g) - 1))

\* The dictionary get_device_properties returns; exc is "" for a return.
Props(wifimac, serialno, manufacturer, model, sw_version) ==
    [exc |-> "", wifimac |-> wifimac, serialno |-> serialno,
     manufacturer |-> manufacturer, model |-> model,
     sw_version |-> sw_version]

PropsRaised(exc) ==
    [exc |-> exc, wifimac |-> None, serialno |-> None, manufacturer |-> None,
     model |-> None, sw_version |-> None]

\* A slip: a pattern that matches nowhere yields "" instead of failing.
Index0_OrEmpty(matches) ==
    [exc |-> "", value |-> IF matches = <<>> THEN <<>> ELSE matches[1]]

\* re.findall(pattern, text)[0]: the first match, or IndexError when findall
\* returned an empty list.
Index0(matches) ==
    IF matches = <<>> THEN [exc |-> "IndexError", value |-> <<>>]
    ELSE [exc |-> "", value |-> matches[1]]

\* `'wifimac' in properties`: whether the second command is not needed.
HasWifimac(properties) ==
    properties # None /\ Contains(properties[1], WIFIMAC_KEY)

\* The commands get_device_properties hands to adb_shell.
get_device_properties_commands(properties) ==
    IF properties = None \/ HasWifimac(properties) THEN <<"getprop">>
    ELSE <<"getprop", "ip addr show wlan0">>

\* get_device_properties, given what adb_shell returned for "getprop" and
\* (when asked) for "ip addr show wlan0".
get_device_properties(properties, wifi) ==
    IF properties = None THEN PropsRaised("TypeError")
    ELSE IF ~HasWifimac(properties) /\ wifi = None
    THEN PropsRaised("TypeError")
    ELSE LET text == properties[1]
             wifimac == IF HasWifimac(properties)
                        THEN Index0(PropMatch(WIFIMAC_KEY, text))
                        ELSE Index0(EtherMatch(wifi[1]))
             serialno == Index0(PropMatch(SERIALNO_KEY, text))
             manufacturer == Index0(PropMatch(MANUF_KEY, text))
             model == Index0(PropMatch(MODEL_KEY, text))
             version == Index0(PropMatch(VERSION_KEY, text))
             found == <<wifimac, serialno, manufacturer, model, version>>
         IN  IF \E i \in 1..5 : found[i].exc # ""
             THEN PropsRaised("IndexError")
             ELSE Props(Some(wifimac.value), Some(serialno.value),
                        Some(manufacturer.value), Some(model.value),
                        Some(version.value))

(***************************************************************************)
(* The commands of get_properties.                                         *)
(***************************************************************************)
\* The one chained command of get_properties.
CompositeCommand(lazy) ==
    IF lazy THEN "screen_on 1 && awake 1 && wake_lock_size && current_app && dumpsys audio"
    ELSE "screen_on 1/0 && awake 1/0 && wake_lock_size && current_app && dumpsys audio"

\* A slip: the command is sent again when the reply is absent.
get_properties_commands_Retry(lazy, output) ==
    IF output = None THEN <<CompositeCommand(lazy), CompositeCommand(lazy)>>
    ELSE <<CompositeCommand(lazy)>>

\* The commands get_properties hands to adb_shell, whatever the reply.
get_properties_commands(lazy, output) == <<CompositeCommand(lazy)>>

(***************************************************************************)
(* The replies of the device.                                              *)
(***************************************************************************)
Alphabet == {"1", "0", " ", "\n", "=", "a", "-"}

\* Every text over Alphabet of length 0..MaxLen.
ShortTexts == UNION {[1..n -> Alphabet] : n \in 0..MaxLen}

NL == <<"\n">>

FL_PLAYING ==
    <<"1", "1", "s", "i", "z", "e", "=", "1">>
FL_TWO_LOCKS ==
    <<"1", "1", "s", "i", "z", "e", "=", "2">>
FL_SCREEN_OFF ==
    <<"0", "1", "s", "i", "z", "e", "=", "1">>
FL_ASLEEP ==
    <<"1", "0", "s", "i", "z", "e", "=", "1">>
FL_MINUS_ONE ==
    <<"1", "1", "s", "i", "z", "e", "=", "-", "1">>
FL_NO_SEPARATOR ==
    <<"1", "1", "s", "i", "z", "e">>
FL_NOT_A_NUMBER ==
    <<"1", "1", "s", "i", "z", "e", "=", "x">>
SL_WINDOW ==
    <<"p", "k", "g", "/", "A", "c", "t">>
SL_NO_WINDOW ==
    <<"n", "u", "l", "l">>
PRE_STARTED ==
    <<"s", "t", "a", "r", "t", "e", "d", "\n">>
PRE_PAUSED ==
    <<"p", "a", "u", "s", "e", "d", "\n">>
PRE_BOTH ==
    <<"p", "a", "u", "s", "e", "d", " ", "s", "t", "a", "r", "t", "e", "d",
      "\n">>
DEV_NONE ==
    <<"\n">>
DEV_SPEAKER ==
    <<" ", "D", "e", "v", "i", "c", "e", "s", ":", " ", "S", "P", "E", "A",
      "K", "E", "R", "\n">>
DEV_EMPTY ==
    <<" ", "D", "e", "v", "i", "c", "e", "s", ":", " ", "\n">>
VOL_0 ==
    <<" ", "S", "P", "E", "A", "K", "E", "R", ")", ":", " ", "0", "\n">>
VOL_8 ==
    <<" ", "S", "P", "E", "A", "K", "E", "R", ")", ":", " ", "8", "\n">>
VOL_15 ==
    <<" ", "S", "P", "E", "A", "K", "E", "R", ")", ":", " ", "1", "5",
      "\n">>
VOL_16 ==
    <<" ", "S", "P", "E", "A", "K", "E", "R", ")", ":", " ", "1", "6",
      "\n">>
VOL_OTHER ==
    <<" ", "H", "D", "M", "I", ")", ":", " ", "8", "\n">>
MUTED_TRUE ==
    <<" ", "M", "u", "t", "e", "d", ":", " ", "t", "r", "u", "e", "\n">>
MUTED_FALSE ==
    <<" ", "M", "u", "t", "e", "d", ":", " ", "f", "a", "l", "s", "e",
      "\n">>
MUTED_UNTERMINATED ==
    <<" ", "M", "u", "t", "e", "d", ":", " ", "f", "a", "l", "s", "e">>
END_TO_END ==
    <<"1", "1", "w", "a", "k", "e", "_", "l", "o", "c", "k", "_", "s", "i",
      "z", "e", "=", "1", "\n", "P", "a", "c", "k", "a", "g", "e", "1",
      "/", "A", "c", "t", "i", "v", "i", "t", "y", "1", "\n", "D", "e",
      "v", "i", "c", "e", "s", ":", " ", "S", "P", "E", "A", "K", "E", "R",
      "\n", ".", ".", ".", "S", "T", "R", "E", "A", "M", "_", "M", "U",
      "S", "I", "C", ".", ".", ".", "D", "e", "v", "i", "c", "e", "s", ":",
      " ", "S", "P", "E", "A", "K", "E", "R", ")", "\n", ":", " ", "8",
      "\n", "M", "u", "t", "e", "d", ":", " ", "f", "a", "l", "s", "e",
      "-", " ", "S", "T", "R", "E", "A", "M">>

\* First lines a device produces, complete or cut, and one no device does.
FirstLines ==
    {FL_PLAYING, FL_TWO_LOCKS, FL_SCREEN_OFF, FL_ASLEEP, FL_NO_SEPARATOR,
     FL_NOT_A_NUMBER}
SecondLines == {SL_WINDOW, SL_NO_WINDOW}
AudioPrefixes == {<<>>, PRE_STARTED, PRE_PAUSED, PRE_BOTH}
DeviceParts == {DEV_NONE, DEV_SPEAKER}
VolumeParts == {<<>>, VOL_0, VOL_8, VOL_15, VOL_16, VOL_OTHER}
MutedParts == {<<>>, MUTED_TRUE, MUTED_FALSE, MUTED_UNTERMINATED}

\* "STREAM_MUSIC ... - STREAM" blocks, and dumps cut before the end marker.
StreamBlocks ==
    {BLOCK_START \o d \o v \o m \o BLOCK_END :
        d \in DeviceParts, v \in VolumeParts, m \in MutedParts}
CutBlocks == {BLOCK_START \o DEV_SPEAKER \o VOL_8 \o MUTED_TRUE}

\* Blocks whose "Devices:" entry names no device.
NamelessBlocks ==
    {BLOCK_START \o DEV_EMPTY \o v \o m \o BLOCK_END :
        v \in VolumeParts, m \in MutedParts}

\* "dumpsys audio" outputs.
AudioDumps ==
    {a \o b : a \in AudioPrefixes, b \in {<<>>} \cup StreamBlocks \cup CutBlocks}
FewAudioDumps ==
    {<<>>, PRE_PAUSED, PRE_STARTED,
     BLOCK_START \o DEV_SPEAKER \o VOL_8 \o MUTED_FALSE \o BLOCK_END}

\* Outputs of the composite command, complete or cut after a line.
CompositeOutputs ==
    {FL_PLAYING \o NL \o l2 \o NL \o a : l2 \in SecondLines, a \in AudioDumps}
    \cup FirstLines
    \cup {l1 \o NL \o l2 : l1 \in FirstLines, l2 \in SecondLines}
    \cup {l1 \o NL \o l2 \o NL \o a :
            l1 \in FirstLines, l2 \in SecondLines, a \in FewAudioDumps}

\* What adb_shell may return for the composite command: None, or a text.
Outputs ==
    {None} \cup {Some(t) : t \in ShortTexts \cup CompositeOutputs \cup {END_TO_END}}

\* Outputs no device is known to produce: a negative count of wake locks,
\* a "Devices:" entry without a name.
RareOutputs ==
    {Some(t) : t \in
        {FL_MINUS_ONE}
        \cup {FL_MINUS_ONE \o NL \o l2 : l2 \in SecondLines}
        \cup {FL_MINUS_ONE \o NL \o l2 \o NL \o a :
                l2 \in SecondLines, a \in FewAudioDumps}
        \cup {FL_PLAYING \o NL \o SL_WINDOW \o NL \o a \o b :
                a \in AudioPrefixes, b \in NamelessBlocks}}

P_WIFIMAC ==
    <<"[", "w", "i", "f", "i", "m", "a", "c", "]", ":", " ", "[", "a", "a",
      "]", "\n">>
P_WIFIMAC_BARE ==
    <<"[", "w", "i", "f", "i", "m", "a", "c", ".", "o", "n", "]", "\n">>
P_SERIALNO ==
    <<"[", "r", "o", ".", "s", "e", "r", "i", "a", "l", "n", "o", "]", ":",
      " ", "[", "s", "1", "]", "\n">>
P_SERIALNO_SPLIT ==
    <<"[", "s", "e", "r", "i", "a", "l", "n", "o", "]", ":", "\n", "[",
      "s", "2", "]", "\n">>
P_MANUF ==
    <<"[", "r", "o", ".", "m", "a", "n", "u", "f", "a", "c", "t", "u", "r",
      "e", "r", "]", ":", " ", "[", "m", "1", "]", "\n">>
P_MODEL ==
    <<"[", "r", "o", ".", "p", "r", "o", "d", "u", "c", "t", ".", "m", "o",
      "d", "e", "l", "]", ":", " ", "[", "d", "1", "]", "\n">>
P_VERSION ==
    <<"[", "r", "o", ".", "v", "e", "r", "s", "i", "o", "n", ".", "r", "e",
      "l", "e", "a", "s", "e", "]", ":", " ", "[", "9", "]", "\n">>
W_ETHER ==
    <<"l", "i", "n", "k", "/", "e", "t", "h", "e", "r", " ", "b", "b", " ",
      "b", "r", "d", " ", "f", "f", "\n">>
W_SPLIT ==
    <<"e", "t", "h", "e", "r", " ", "b", "b", "\n", " ", "b", "r", "d",
      " ", "f", "f", "\n">>

\* The lines a property dump is made of, in the order they appear.
PropLines ==
    <<P_WIFIMAC_BARE, P_WIFIMAC, P_SERIALNO_SPLIT, P_SERIALNO, P_MANUF,
      P_MODEL, P_VERSION>>

RECURSIVE DumpFrom(_, _)
DumpFrom(S, i) ==
    IF i > Len(PropLines) THEN <<>>
    ELSE (IF i \in S THEN PropLines[i] ELSE <<>>) \o DumpFrom(S, i + 1)

\* What adb_shell may return for "getprop" and for "ip addr show wlan0".
PropertyDumps ==
    {None} \cup {Some(DumpFrom(S, 1)) : S \in SUBSET (1..Len(PropLines))}
WifiOutputs == {None, Some(<<>>), Some(W_ETHER), Some(W_SPLIT)}

CompleteDump == Some(DumpFrom({2, 4, 5, 6, 7}, 1))

(***************************************************************************)
(* The state machine.                                                      *)
(***************************************************************************)
\* No call of the method has returned yet.
NoSnapshot == Raised("not called")
NoResult == UpdateRaised("not called")
NoProps == PropsRaised("not called")

Fresh ==
    /\ sent = 0
    /\ cmds = <<>>
    /\ op = "none"
    /\ props = NoSnapshot
    /\ result = NoResult
    /\ device_properties = NoProps

\* A device in a steady state: each command always gets the same reply.
Init ==
    /\ \/ /\ channel \in Outputs
          /\ getprop_out = CompleteDump
          /\ wifi_out = Some(W_ETHER)
       \/ /\ channel \in RareOutputs
          /\ getprop_out = CompleteDump
          /\ wifi_out = Some(W_ETHER)
       \/ /\ channel = Some(END_TO_END)
          /\ getprop_out \in PropertyDumps
          /\ wifi_out \in WifiOutputs
    /\ Fresh

\* adb_shell(cmd): the reply of the device.
adb_shell(cmd) ==
    IF cmd = "getprop" THEN getprop_out
    ELSE IF cmd = "ip addr show wlan0" THEN wifi_out
    ELSE channel

GetProperties(lazy) ==
    LET output == adb_shell(CompositeCommand(lazy))
    IN  /\ sent < MaxCalls
        /\ cmds' = get_properties_commands(lazy, output)
        /\ sent' = sent + Len(cmds')
        /\ op' = "get_properties"
        /\ props' = get_properties(output)
        /\ result' = NoResult
        /\ device_properties' = NoProps
        /\ UNCHANGED <<channel, getprop_out, wifi_out>>

Update ==
    LET output == adb_shell(CompositeCommand(TRUE))
    IN  /\ sent < MaxCalls
        /\ cmds' = get_properties_commands(TRUE, output)
        /\ sent' = sent + Len(cmds')
        /\ op' = "update"
        /\ props' = get_properties(output)
        /\ result' = update(props')
        /\ device_properties' = NoProps
        /\ UNCHANGED <<channel, getprop_out, wifi_out>>

GetDeviceProperties ==
    LET properties == adb_shell("getprop")
    IN  /\ sent < MaxCalls
        /\ cmds' = get_device_properties_commands(properties)
        /\ sent' = sent + Len(cmds')
        /\ op' = "get_device_properties"
        /\ device_properties' =
              get_device_properties(properties,
                                    adb_shell("ip addr show wlan0"))
        /\ props' = NoSnapshot
        /\ result' = NoResult
        /\ UNCHANGED <<channel, getprop_out, wifi_out>>

Next ==
    \/ \E lazy \in BOOLEAN : GetProperties(lazy)
    \/ Update
    \/ GetDeviceProperties

Spec == Init /\ [][Next]_vars

(***************************************************************************)
(* A device whose reply to the composite command changes between calls.    *)
(***************************************************************************)
ChangingReplies ==
    {None, Some(<<>>), Some(<<"1">>), Some(FL_PLAYING),
     Some(FL_NO_SEPARATOR),
     Some(FL_PLAYING \o NL \o SL_WINDOW \o NL \o PRE_STARTED),
     Some(END_TO_END)}

InitChan ==
    /\ channel \in ChangingReplies
    /\ getprop_out = CompleteDump
    /\ wifi_out = Some(W_ETHER)
    /\ Fresh

DeviceChanges ==
    /\ \E r \in ChangingReplies \ {channel} : channel' = r
    /\ UNCHANGED <<getprop_out, wifi_out, sent, cmds, op, props, result,
                   device_properties>>

NextChan ==
    \/ \E lazy \in BOOLEAN : GetProperties(lazy)
    \/ Update
    \/ GetDeviceProperties
    \/ DeviceChanges

SpecChan == InitChan /\ [][NextChan]_vars

(***************************************************************************)
(* Properties.                                                             *)
(***************************************************************************)
\* The latest call ran get_properties: props holds its outcome.
Decoded == op \in {"get_properties", "update"}

\* The fields of a snapshot in their order of decoding.
Fields(p) ==
    <<p.screen_on, p.awake, p.wake_lock_size, p.current_app, p.audio_state,
      p.device, p.muted, p.volume>>

\* The lines get_properties sees in the reply.
ReplyLines == IF channel = None THEN <<>> ELSE splitlines(Strip(channel[1]))

PACKAGE1 ==
    <<"P", "a", "c", "k", "a", "g", "e", "1">>
ACTIVITY1 ==
    <<"A", "c", "t", "i", "v", "i", "t", "y", "1">>

\* C1: whatever the channel returns (absent, empty, any text), get_properties
\* returns an 8-field snapshot and never raises.
C1_NeverRaises == Decoded => props.exc = ""

\* The five ordered rules of the state resolver, first match wins.
FiveRules(p) ==
    IF p.screen_on # Some(TRUE) THEN STATE_OFF
    ELSE IF p.audio_state \in {Some(STATE_PLAYING), Some(STATE_PAUSED)}
    THEN p.audio_state[1]
    ELSE IF p.awake # Some(TRUE) THEN STATE_IDLE
    ELSE IF p.wake_lock_size = Some(1) THEN STATE_PLAYING
    ELSE STATE_PAUSED

\* C2: for every decoded snapshot the state update() returns is the result
\* of the five ordered rules; in particular screen on, awake, one wake lock
\* and audio state Idle resolve to Playing.
C2_FiveRules ==
    (op = "update" /\ props.exc = "") =>
        result.state = Some(FiveRules(props))

C4_AbsentOutput ==
    (Decoded /\ channel = None) =>
        /\ props.exc = ""
        /\ \A i \in 1..8 : Fields(props)[i] = None
        /\ op = "update" =>
              /\ result.exc = ""
              /\ result.state = Some(STATE_OFF)
              /\ result.current_app = None
              /\ result.device = None
              /\ result.muted = None
              /\ result.volume = None

C4_Witness ==
    /\ op = "update"
    /\ channel = None
    /\ result.state = Some(STATE_OFF)

\* C5: the end-to-end reply resolves to Playing, with currentApp
\* Package1/Activity1, muted false and volume 0.53.
C5_EndToEnd ==
    (op = "update" /\ channel = Some(END_TO_END)) =>
        /\ result.exc = ""
        /\ result.state = Some(STATE_PLAYING)
        /\ props.current_app =
              Some([package |-> PACKAGE1, activity |-> ACTIVITY1])
        /\ result.current_app = Some(PACKAGE1)
        /\ result.muted = Some(FALSE)
        /\ result.volume = Some(53)

\* C6: get_device_properties fails, returning no record, when serialno,
\* manufacturer, product.model or version.release matches nowhere, and when
\* neither the wifimac key nor the "ether ... brd" pattern matches; when
\* every pattern matches it returns the five fields, and it asks for the
\* network interface only if "wifimac" does not occur in the property dump.
C6_DeviceProperties ==
    (op = "get_device_properties" /\ getprop_out # None) =>
        LET text == getprop_out[1]
            d == device_properties
            got == <<d.wifimac, d.serialno, d.manufacturer, d.model,
                     d.sw_version>>
            keys == <<SERIALNO_KEY, MANUF_KEY, MODEL_KEY, VERSION_KEY>>
            keysFound == \A k \in 1..4 : PropMatch(keys[k], text) # None
            inDump == Contains(text, WIFIMAC_KEY)
            ether == IF wifi_out = None THEN None ELSE EtherMatch(wifi_out[1])
            wifimac == IF inDump THEN PropMatch(WIFIMAC_KEY, text) ELSE ether
            asked == \E i \in 1..Len(cmds) : cmds[i] = "ip addr show wlan0"
        IN  /\ ~keysFound => d.exc # ""
            /\ (PropMatch(WIFIMAC_KEY, text) = None /\ ether = None) =>
                  d.exc # ""
            /\ d.exc # "" => \A i \in 1..5 : got[i] = None
            /\ (keysFound /\ wifimac # None) =>
                  /\ d.exc = ""
                  /\ DOMAIN d = {"exc", "wifimac", "serialno",
                                 "manufacturer", "model", "sw_version"}
                  /\ d.wifimac = wifimac
                  /\ \A k \in 1..4 : got[k + 1] = PropMatch(keys[k], text)
            /\ asked <=> ~inDump

C6_Witness ==
    /\ op = "get_device_properties"
    /\ getprop_out # None
    /\ PropMatch(SERIALNO_KEY, getprop_out[1]) = None
    /\ PropMatch(MANUF_KEY, getprop_out[1]) # None
    /\ device_properties.exc = "IndexError"

\* C7: each call of update() and of get_properties hands exactly one command
\* to the channel, whatever the reply, and what it returns is decoded from
\* that reply alone.
C7_OneCommandPerCall ==
    [][(Update \/ \E lazy \in BOOLEAN : GetProperties(lazy)) =>
          /\ sent' = sent + 1
          /\ Len(cmds') = 1
          /\ props' = get_properties(channel)
          /\ op' = "update" => result' = update(get_properties(channel))]_vars

C7_Witness ==
    /\ op = "update"
    /\ sent = 2
    /\ channel = None
    /\ props.exc = ""

\* C8 as stated: in a returned snapshot the fields are prefix-closed: once a
\* field is unset (or wakeLockSize is -1) every later field is unset.
C8_PrefixClosed ==
    (Decoded /\ props.exc = "") =>
        \A i \in 1..8 : \A j \in (i + 1)..8 :
            (\/ Fields(props)[i] = None
             \/ i = 3 /\ props.wake_lock_size = Some(-1))
                => Fields(props)[j] = None

\* C8 as amended: in a returned snapshot, an unset screenOn, awake or
\* wakeLockSize leaves every later field unset; an unset audioState leaves
\* playbackDevice, muted and volume unset; an unset playbackDevice leaves
\* volume unset.  (currentApp may be unset while the audio fields are set,
\* muted may be set while playbackDevice is unset, and a count of -1 read
\* from the first line does not stop the decoding.)
C8_DecodeOrder ==
    (Decoded /\ props.exc = "") =>
        /\ \A i \in 1..3 : \A j \in (i + 1)..8 :
              Fields(props)[i] = None => Fields(props)[j] = None
        /\ props.audio_state = None =>
              \A j \in 6..8 : Fields(props)[j] = None
        /\ props.device = None => props.volume = None

C8_Witness ==
    /\ op = "get_properties"
    /\ props.exc = ""
    /\ props.current_app = None
    /\ props.device = None
    /\ props.muted = Some(TRUE)

\* C9: in a returned snapshot the volume is unset or a fraction between 0.0
\* and 1.0, for every integer the pattern captures, and it is unset when no
\* device was found.
C9_VolumeRange ==
    (Decoded /\ props.exc = "") =>
        /\ props.volume # None =>
              (props.volume[1] >= 0 /\ props.volume[1] <= 100)
        /\ props.device = None => props.volume = None

\* C10: for every reply of at least 3 lines, audioState is set and decided
\* by the scan for "started", then "paused", of the audio lines alone; with
\* no "STREAM_MUSIC ... - STREAM" block, playbackDevice, muted and volume
\* are unset while audioState is still reported.
C10_AudioState ==
    (Decoded /\ Len(ReplyLines) >= 3) =>
        LET audio == JoinFrom(ReplyLines, 3)
        IN  /\ props.audio_state =
                  Some(IF Contains(audio, STARTED) THEN STATE_PLAYING
                       ELSE IF Contains(audio, PAUSED) THEN STATE_PAUSED
                       ELSE STATE_IDLE)
            /\ BlockMatch(audio) = None =>
                  /\ props.device = None
                  /\ props.muted = None
                  /\ props.volume = None

====
